---- MODULE Spec2Model ----
(***************************************************************************)
(* Entitlement, usage metering and digest scheduling of the voice-to-task  *)
(* bot: the users/tasks tables (database.py), the Stripe webhook and cron  *)
(* endpoint (server.py) and the Telegram handlers and digest job (bot.py). *)
(*                                                                         *)
(* Conventions.  JSON / Python values are strings: "null" is None or SQL   *)
(* NULL, "true"/"false" are booleans, "absent" is a key that is not in a   *)
(* dict.  Minutes are whole numbers (voice durations that are multiples of *)
(* 60 s), so the float arithmetic of the source is exact here.  Time       *)
(* strings are sequences of one-character strings.                         *)
(***************************************************************************)
EXTENDS Integers, Sequences, FiniteSets, TLC

VARIABLES users, tasks, voice, sweep, now, last, sent

vars == <<users, tasks, voice, sweep, now, last, sent>>

----------------------------------------------------------------------------
(* Bounds and input domains *)

Users == {"u1", "u2"}
Customers == {"cus_A", "cus_B"}

Null == "null"
Absent == "absent"
NoRow == [exists |-> FALSE]

\* number of handle_voice requests in one behaviour
MaxReqs == 2
Reqs == 1..MaxReqs
\* rows of the tasks table in one behaviour
MaxTasks == 2
\* voice note lengths, in minutes
Durations == {0, 2, 3, 5, 298}

----------------------------------------------------------------------------
(* bot.py constants *)

FREE_TIER_MINUTES == 5
PRO_TIER_MINUTES == 300

----------------------------------------------------------------------------
(* database.py *)

Str5(a, b, c, d, e) == <<a, b, c, d, e>>

\* the column defaults of init_db together with the INSERT of check_user_status
DefaultRow ==
    [exists |-> TRUE, plan_tier |-> "free", minutes_used |-> 0,
     stripe_customer_id |-> Null,
     digest_time |-> Str5("1", "8", ":", "0", "0"), timezone |-> "UTC"]

\* check_user_status run without another call in between: SELECT, and INSERT
\* when there is no row
check_user_status(db, u) ==
    IF db[u].exists THEN db ELSE [db EXCEPT ![u] = DefaultRow]

\* update_user: UPDATE users SET ... WHERE user_id = u; no row, no effect.
\* kw is a function from column names to values.
update_user(db, u, kw) ==
    IF u \in Users /\ db[u].exists
    THEN [db EXCEPT ![u] =
            [f \in DOMAIN db[u] |-> IF f \in DOMAIN kw THEN kw[f] ELSE db[u][f]]]
    ELSE db

\* mutant: a missing customer id matches the rows that have no customer id
get_user_by_stripe_id_null(db, c) ==
    {u \in Users : db[u].exists /\ db[u].stripe_customer_id = c}

\* get_user_by_stripe_id: the rows fetchone() may return (str(None) is 'None',
\* which is the id of no customer, and NULL equals nothing)
get_user_by_stripe_id(db, c) ==
    IF c = Null THEN {}
    ELSE {u \in Users : db[u].exists /\ db[u].stripe_customer_id = c}

----------------------------------------------------------------------------
(* server.py: the Stripe webhook *)

CHECKOUT == "checkout.session.completed"
DELETED == "customer.subscription.deleted"
UPDATED == "customer.subscription.updated"
OTHER_TYPE == "invoice.paid"

\* cancel_at / current_period_end timestamps
T0 == "1705276800"
T1 == "1707955200"
T2 == "1710460800"

Event(type, ref, cust, cape, cat, cpe, prevCape, prevCat) ==
    [type |-> type, client_reference_id |-> ref, customer |-> cust,
     cancel_at_period_end |-> cape, cancel_at |-> cat, current_period_end |-> cpe,
     previous_attributes |-> [cancel_at_period_end |-> prevCape, cancel_at |-> prevCat]]

CheckoutEvents ==
    {Event(CHECKOUT, r, c, Null, Null, Null, Absent, Absent) :
        r \in Users \cup {Null}, c \in Customers \cup {Null}}

DeletedEvents ==
    {Event(DELETED, Null, c, Null, Null, Null, Absent, Absent) :
        c \in Customers \cup {Null}}

\* previous_attributes holds the prior value of each field the update changed;
\* a field whose prior value is listed differs from the current value
UpdatedEvents ==
    {e \in {Event(UPDATED, Null, m[1], m[2], m[3], T2, m[4], m[5]) :
                m \in (Customers \cup {Null}) \X {"true", "false"} \X {Null, T1}
                        \X {Absent, "true", "false"} \X {Absent, Null, T0}} :
        /\ e.previous_attributes.cancel_at_period_end # e.cancel_at_period_end
        /\ e.previous_attributes.cancel_at # e.cancel_at}

OtherEvents == {Event(OTHER_TYPE, Null, c, Null, Null, Null, Absent, Absent) : c \in Customers}

Events == CheckoutEvents \cup DeletedEvents \cup UpdatedEvents \cup OtherEvents

\* Python truth value of a JSON value
Truthy(v) == v \notin {Null, "false", Absent}

\* dict.get(key): None for a key that is not in the dict
DictGet(d, k) == IF d[k] = Absent THEN Null ELSE d[k]

\* `key in dict`
HasKey(d, k) == d[k] # Absent

\* webhook, line 196 (computed by the handler and not read again)
was_already_cancelling(e) ==
    \/ Truthy(DictGet(e.previous_attributes, "cancel_at_period_end"))
    \/ Truthy(DictGet(e.previous_attributes, "cancel_at"))

\* mutant: the checkout flips the plan instead of setting it
CheckoutUpdate_flip(db, e) ==
    IF Truthy(e.client_reference_id) /\ e.client_reference_id \in Users
       /\ db[e.client_reference_id].exists
    THEN update_user(db, e.client_reference_id,
            [plan_tier |-> IF db[e.client_reference_id].plan_tier = "pro"
                           THEN "free" ELSE "pro",
             stripe_customer_id |-> e.customer])
    ELSE db

\* webhook, lines 140-146: the account update of checkout.session.completed
CheckoutUpdate(db, e) ==
    IF Truthy(e.client_reference_id)
    THEN update_user(db, e.client_reference_id,
                     [plan_tier |-> "pro", stripe_customer_id |-> e.customer])
    ELSE db

\* webhook, lines 171: the account update of customer.subscription.deleted
DeletedUpdate(db, u) == update_user(db, u, [plan_tier |-> "free"])

\* webhook, lines 191-209
is_cancelling(e) == Truthy(e.cancel_at_period_end) \/ Truthy(e.cancel_at)

\* mutant: only a changed cancel_at notifies
should_notify_dateOnly(e) ==
    is_cancelling(e) /\ HasKey(e.previous_attributes, "cancel_at") /\ Truthy(e.cancel_at)

\* mutant: notify whenever the subscription is cancelling now
should_notify_naive(e) == is_cancelling(e)

should_notify(e) ==
    /\ is_cancelling(e)
    /\ \/ HasKey(e.previous_attributes, "cancel_at_period_end")
          /\ Truthy(e.cancel_at_period_end)
       \/ HasKey(e.previous_attributes, "cancel_at") /\ Truthy(e.cancel_at)

\* webhook, lines 215-222: the end date of the cancellation notice
end_date(e) ==
    LET end_ts == IF Truthy(e.cancel_at) THEN e.cancel_at ELSE e.current_period_end
    IN  IF Truthy(end_ts) THEN end_ts ELSE "the end of the billing period"

Notice(u, kind, detail) == [to |-> u, kind |-> kind, detail |-> detail]

\* mutant: a deleted subscription of an unknown customer is answered 404
Handled_notFound(e, ok) ==
    [op |-> "webhook", event |-> e,
     redelivery |-> (last.op = "webhook" /\ last.event = e),
     notify_ok |-> ok,
     status |-> IF e.type = DELETED /\ get_user_by_stripe_id(users, e.customer) = {}
                THEN 404 ELSE 200]

\* the record of the request just handled; redelivery: the request before it
\* was the same webhook event; notify_ok: requests.post of notify_user did not
\* raise; status: line 233, the one return after the dispatch
Handled(e, ok) ==
    [op |-> "webhook", event |-> e,
     redelivery |-> (last.op = "webhook" /\ last.event = e),
     notify_ok |-> ok, status |-> 200]

\* In the three branches sent is the list of notify_user calls made; the
\* account is updated before the call and notify_user (lines 101-106) swallows
\* what requests.post raises, so ok has no part in users'.
WebhookCheckout(e, ok) ==
    /\ e.type = CHECKOUT
    /\ users' = CheckoutUpdate(users, e)
    /\ sent' = IF Truthy(e.client_reference_id)
               THEN <<Notice(e.client_reference_id, "pro_activated", Null)>>
               ELSE <<>>

\* mutant: the message goes out before the update and its failure ends the
\* handler
WebhookDeleted_notifyFirst(e, ok) ==
    /\ e.type = DELETED
    /\ LET found == get_user_by_stripe_id(users, e.customer)
       IN  IF found = {}
           THEN users' = users /\ sent' = <<>>
           ELSE \E u \in found :
                   /\ users' = IF ok THEN DeletedUpdate(users, u) ELSE users
                   /\ sent' = <<Notice(u, "subscription_ended", Null)>>

\* webhook, lines 163-180
WebhookDeleted(e, ok) ==
    /\ e.type = DELETED
    /\ LET found == get_user_by_stripe_id(users, e.customer)
       IN  IF found = {}
           THEN users' = users /\ sent' = <<>>
           ELSE \E u \in found :
                   /\ users' = DeletedUpdate(users, u)
                   /\ sent' = <<Notice(u, "subscription_ended", Null)>>

\* mutant: the plan is dropped as soon as the cancellation is scheduled
WebhookUpdated_downgrade(e, ok) ==
    /\ e.type = UPDATED
    /\ LET found == get_user_by_stripe_id(users, e.customer)
       IN  IF should_notify(e) /\ found # {}
           THEN \E u \in found :
                   /\ users' = update_user(users, u, [plan_tier |-> "free"])
                   /\ sent' = <<Notice(u, "cancellation_scheduled", end_date(e))>>
           ELSE users' = users /\ sent' = <<>>

\* webhook, lines 183-231
WebhookUpdated(e, ok) ==
    /\ e.type = UPDATED
    /\ users' = users
    /\ LET found == get_user_by_stripe_id(users, e.customer)
       IN  IF should_notify(e) /\ found # {}
           THEN \E u \in found :
                   sent' = <<Notice(u, "cancellation_scheduled", end_date(e))>>
           ELSE sent' = <<>>

WebhookOther(e) ==
    /\ e.type \notin {CHECKOUT, DELETED, UPDATED}
    /\ users' = users
    /\ sent' = <<>>

\* POST /webhook with a verified signature (ok is TRUE when nothing is sent)
Webhook(e) ==
    \E ok \in BOOLEAN :
       /\ \/ WebhookCheckout(e, ok)
          \/ WebhookDeleted(e, ok)
          \/ WebhookUpdated(e, ok)
          \/ WebhookOther(e)
       /\ ok \/ sent' # <<>>
       /\ last' = Handled(e, ok)
       /\ UNCHANGED <<tasks, voice, sweep, now>>

\* what construct_event raises (lines 122-127): ValueError for a body that
\* does not parse, SignatureVerificationError for a signature that does not
\* match
Verdicts == {"invalid_payload", "invalid_signature"}

\* POST /webhook, lines 118-127: construct_event raises, the request is
\* answered 400 before the body e is looked at
WebhookRejected(v, e) ==
    /\ users' = users
    /\ sent' = <<>>
    /\ last' = [op |-> "webhook_rejected", reason |-> v, status |-> 400]
    /\ UNCHANGED <<tasks, voice, sweep, now>>

----------------------------------------------------------------------------
(* bot.py: handle_voice *)

IdleReq == [pc |-> "idle", user |-> Null, used |-> 0, limit |-> 0, dur |-> 0]

\* handle_voice, line 360
LimitOf(plan) == IF plan = "pro" THEN PRO_TIER_MINUTES ELSE FREE_TIER_MINUTES

\* handle_voice, lines 362 and 382: the two quota checks on the values read
QuotaVerdict(used, limit, dur) ==
    IF used >= limit THEN "limit_reached"
    ELSE IF used + dur > limit THEN "too_long"
    ELSE "processing"

\* one request at a time leaves the idle pool (the requests are interchangeable)
NextIdle(r) == voice[r].pc = "idle" /\ \A q \in Reqs : q < r => voice[q].pc # "idle"

\* the locals of a handler that has returned without charging are gone
Returned(outcome) == [IdleReq EXCEPT !.pc = outcome]

\* handle_voice, lines 354-384: read the account (creating it), check the quota
VoiceStart(r, u, d) ==
    /\ NextIdle(r)
    /\ LET db == check_user_status(users, u)
           used == db[u].minutes_used
           limit == LimitOf(db[u].plan_tier)
           verdict == QuotaVerdict(used, limit, d)
       IN  /\ users' = db
           /\ voice' = [voice EXCEPT ![r] =
                  IF verdict = "processing"
                  THEN [pc |-> verdict, user |-> u, used |-> used,
                        limit |-> limit, dur |-> d]
                  ELSE [Returned(verdict) EXCEPT !.user = u]]
           /\ last' = [op |-> "voice_start", user |-> u, used |-> used,
                       limit |-> limit, dur |-> d, verdict |-> verdict]
    /\ sent' = <<>>
    /\ UNCHANGED <<tasks, sweep, now>>

\* check_user_status step by step, as the first statement of a handler running
\* in a process of its own (one request of /telegram_webhook each). The SELECT
\* of line 106 finds the row and the call returns it.
GetOrCreateFound(r, u) ==
    /\ NextIdle(r)
    /\ users[u].exists
    /\ last' = [op |-> "get_or_create", user |-> u, returned |-> TRUE]
    /\ sent' = <<>>
    /\ UNCHANGED <<users, tasks, voice, sweep, now>>

\* the SELECT of line 106 finds no row: the INSERT of line 111 comes next
GetOrCreateMiss(r, u) ==
    /\ NextIdle(r)
    /\ ~users[u].exists
    /\ voice' = [voice EXCEPT ![r] = [IdleReq EXCEPT !.pc = "insert", !.user = u]]
    /\ last' = [op |-> "select", user |-> u]
    /\ sent' = <<>>
    /\ UNCHANGED <<users, tasks, sweep, now>>

\* the INSERT of line 111: user_id is the primary key (line 62), so with the
\* row there by now the statement raises and get_db_cursor re-raises (line 40);
\* otherwise the row is created and the SELECT of line 114 returns it
GetOrCreateInsert(r) ==
    /\ voice[r].pc = "insert"
    /\ LET u == voice[r].user
       IN  /\ users' = IF users[u].exists THEN users
                       ELSE [users EXCEPT ![u] = DefaultRow]
           /\ last' = [op |-> "get_or_create", user |-> u,
                       returned |-> ~users[u].exists]
    /\ voice' = [voice EXCEPT ![r] = IdleReq]
    /\ sent' = <<>>
    /\ UNCHANGED <<tasks, sweep, now>>

\* handle_voice, lines 447-449: the download or the model call raises
VoiceError(r) ==
    /\ voice[r].pc = "processing"
    /\ voice' = [voice EXCEPT ![r] = [Returned("error") EXCEPT !.user = voice[r].user]]
    /\ last' = [op |-> "voice"]
    /\ sent' = <<>>
    /\ UNCHANGED <<users, tasks, sweep, now>>

\* handle_voice, lines 444-445: the model returns no text
VoiceNoTasks(r) ==
    /\ voice[r].pc = "processing"
    /\ voice' = [voice EXCEPT ![r] = [Returned("no_tasks") EXCEPT !.user = voice[r].user]]
    /\ last' = [op |-> "voice"]
    /\ sent' = <<>>
    /\ UNCHANGED <<users, tasks, sweep, now>>

\* handle_voice, line 408
new_total(used, duration_mins) == used + duration_mins

\* mutant: the row read at the start is written back with the new total
VoiceCharge_saveRow(r) ==
    /\ voice[r].pc = "processing"
    /\ users' = update_user(users, voice[r].user,
                    [minutes_used |-> new_total(voice[r].used, voice[r].dur),
                     plan_tier |-> IF voice[r].limit = PRO_TIER_MINUTES
                                   THEN "pro" ELSE "free"])
    /\ voice' = [voice EXCEPT ![r].pc = "charged"]
    /\ last' = [op |-> "voice"]
    /\ sent' = <<>>
    /\ UNCHANGED <<tasks, sweep, now>>

\* handle_voice, lines 408-409: new_total from the value read at the start
VoiceCharge(r) ==
    /\ voice[r].pc = "processing"
    /\ users' = update_user(users, voice[r].user,
                    [minutes_used |-> new_total(voice[r].used, voice[r].dur)])
    /\ voice' = [voice EXCEPT ![r].pc = "charged"]
    /\ last' = [op |-> "voice"]
    /\ sent' = <<>>
    /\ UNCHANGED <<tasks, sweep, now>>

\* add_task: INSERT INTO tasks; the id is the position in the table.
\* digests is an observation, not a column: the number of delivered digest
\* messages that listed the row
add_task(tbl, u) ==
    Append(tbl, [user_id |-> u, is_digest_sent |-> FALSE, digests |-> 0])

\* handle_voice, line 410
VoiceSave(r) ==
    /\ voice[r].pc = "charged"
    /\ tasks' = add_task(tasks, voice[r].user)
    /\ voice' = [voice EXCEPT ![r].pc = "done"]
    /\ last' = [op |-> "voice"]
    /\ sent' = <<>>
    /\ UNCHANGED <<users, sweep, now>>

\* handle_voice, lines 410 and 447-449: add_task opens a connection of its own
\* after update_user has committed; when it raises (the database is locked or
\* unreachable) the except answers "Error processing request"
VoiceSaveFail(r) ==
    /\ voice[r].pc = "charged"
    /\ voice' = [voice EXCEPT ![r].pc = "save_failed"]
    /\ last' = [op |-> "voice"]
    /\ sent' = <<>>
    /\ UNCHANGED <<users, tasks, sweep, now>>

----------------------------------------------------------------------------
(* bot.py: the settings commands *)

Digits == <<"0", "1", "2", "3", "4", "5", "6", "7", "8", "9">>
DigitChar(n) == Digits[n + 1]
IsDigit(c) == \E i \in 1..10 : Digits[i] = c
DigitIn(c, lo, hi) == \E i \in lo..hi : Digits[i + 1] = c

\* the time-of-day arguments tried by /set_digest
T_1800 == Str5("1", "8", ":", "0", "0")
T_0905 == Str5("0", "9", ":", "0", "5")
T_905 == <<"9", ":", "0", "5">>
T_95 == <<"9", ":", "5">>
T_2599 == Str5("2", "5", ":", "9", "9")
TimeArgs == {<<>>, <<T_0905>>, <<T_905>>, <<T_95>>, <<T_2599>>}

\* the zone arguments tried by /set_timezone
ZoneArgs == {<<>>, <<"Asia/Singapore">>, <<"UTC">>, <<"Not/AZone">>}

\* pytz: the zones of the model with their offset from UTC in minutes
\* (none of them has daylight saving time)
ZoneNames == {"UTC", "Asia/Singapore"}
utcoffset(tz) == IF tz = "Asia/Singapore" THEN 480 ELSE 0

\* datetime.strptime(s, "%H:%M"): %H is 2[0-3]|[0-1]\d|\d, %M is [0-5]\d|\d,
\* each taking its first alternative that fits, and the whole string must be used
HourLen(s) ==
    IF Len(s) >= 2 /\ \/ s[1] = "2" /\ DigitIn(s[2], 0, 3)
                      \/ DigitIn(s[1], 0, 1) /\ IsDigit(s[2])
    THEN 2
    ELSE IF Len(s) >= 1 /\ IsDigit(s[1]) THEN 1 ELSE 0

MinuteLen(s, p) ==
    IF Len(s) >= p + 1 /\ DigitIn(s[p], 0, 5) /\ IsDigit(s[p + 1]) THEN 2
    ELSE IF Len(s) >= p /\ IsDigit(s[p]) THEN 1 ELSE 0

\* mutant: digits, a colon, digits
strptime_ok_shape(s) ==
    \E k \in 2..(Len(s) - 1) :
        /\ s[k] = ":"
        /\ \A j \in 1..Len(s) : j # k => IsDigit(s[j])

strptime_ok(s) ==
    LET h == HourLen(s)
        m == MinuteLen(s, h + 2)
    IN  /\ h > 0
        /\ Len(s) >= h + 1 /\ s[h + 1] = ":"
        /\ m > 0
        /\ Len(s) = h + 1 + m

\* set_digest: no argument makes strptime raise, like a string it cannot parse
SetDigest(u, args) ==
    /\ LET ok == args # <<>> /\ strptime_ok(args[1])
       IN  /\ users' = IF ok THEN update_user(users, u, [digest_time |-> args[1]])
                       ELSE users
           /\ last' = [op |-> "set_digest", user |-> u, args |-> args,
                       reply |-> IF ok THEN "saved" ELSE "invalid"]
    /\ sent' = <<>>
    /\ UNCHANGED <<tasks, voice, sweep, now>>

\* set_timezone
SetTimezone(u, args) ==
    /\ LET ok == args # <<>> /\ args[1] \in ZoneNames
       IN  /\ users' = IF ok THEN update_user(users, u, [timezone |-> args[1]])
                       ELSE users
           /\ last' = [op |-> "set_timezone", user |-> u, args |-> args,
                       reply |-> IF args = <<>> THEN "usage"
                                 ELSE IF ok THEN "saved" ELSE "invalid"]
    /\ sent' = <<>>
    /\ UNCHANGED <<tasks, voice, sweep, now>>

----------------------------------------------------------------------------
(* bot.py: daily_digest_job *)

MinutesPerDay == 1440

\* the minutes of the day (UTC) at which the clock is looked at: 01:05, 09:05,
\* 10:00 and 18:00, the instants at which 09:05 and 18:00 are the local time of
\* one of the zones
Instants == {65, 545, 600, 1080}

\* mutant: the reference instant is not converted to the zone of the account
astimezone_utc(utc, tz) == utc % MinutesPerDay

\* utc_now.astimezone(user_tz), as the minute of the local day
astimezone(utc, tz) == (utc + utcoffset(tz)) % MinutesPerDay

\* strftime("%H:%M") of a minute of the day
strftime(t) ==
    Str5(DigitChar((t \div 60) \div 10), DigitChar((t \div 60) % 10), ":",
         DigitChar((t % 60) \div 10), DigitChar((t % 60) % 10))

\* get_unsent_tasks: the ids of the rows of u with is_digest_sent = 0
get_unsent_tasks(tbl, u) ==
    {i \in 1..Len(tbl) : tbl[i].user_id = u /\ ~tbl[i].is_digest_sent}

\* mutant: the UPDATE has no WHERE clause
mark_tasks_sent_all(tbl, ids) ==
    [i \in 1..Len(tbl) |-> [tbl[i] EXCEPT !.is_digest_sent = TRUE]]

\* mutant: only the first of the ids is marked
mark_tasks_sent_first(tbl, ids) ==
    [i \in 1..Len(tbl) |->
        IF i \in ids /\ \A j \in ids : i <= j
        THEN [tbl[i] EXCEPT !.is_digest_sent = TRUE] ELSE tbl[i]]

\* mark_tasks_sent: UPDATE tasks SET is_digest_sent = 1 WHERE id IN ids
mark_tasks_sent(tbl, ids) ==
    [i \in 1..Len(tbl) |->
        IF i \in ids THEN [tbl[i] EXCEPT !.is_digest_sent = TRUE] ELSE tbl[i]]

\* daily_digest_job, lines 469-479, on the row the sweep read
LocalTimeStr(utc, row) ==
    strftime(astimezone(utc, IF Truthy(row.timezone) THEN row.timezone ELSE "UTC"))

TimeMatches(utc, row) ==
    /\ (Truthy(row.timezone) => row.timezone \in ZoneNames)
    /\ LocalTimeStr(utc, row) = row.digest_time

\* the two callers of daily_digest_job: the repeating job of the polling
\* process (bot.py, line 562) and GET /cron/digest (server.py, line 93)
Sweepers == {"timer", "cron"}

IdleSweep ==
    [pc |-> "idle", utc_now |-> 0, rows |-> [u \in Users |-> NoRow],
     todo |-> {}, user |-> Null, fetched |-> {}]

\* daily_digest_job, lines 462-464: the reference instant and get_all_users
SweepStart(s) ==
    /\ sweep[s].pc = "idle"
    /\ sweep' = [sweep EXCEPT ![s] =
                    [IdleSweep EXCEPT !.pc = "loop", !.utc_now = now, !.rows = users,
                                      !.todo = {u \in Users : users[u].exists}]]
    /\ sent' = <<>>
    /\ UNCHANGED <<users, tasks, voice, now>>

\* the job queue of the polling process runs the job (bot.py, line 562)
TimerFire ==
    /\ SweepStart("timer")
    /\ last' = [op |-> "sweep_start"]

\* daily_digest_job, lines 466-487: one turn of the loop, up to the send
\* (the row of the list is not read again after its turn)
SweepUser(s, u) ==
    /\ sweep[s].pc = "loop"
    /\ u \in sweep[s].todo
    /\ LET unsent == get_unsent_tasks(tasks, u)
           fire == TimeMatches(sweep[s].utc_now, sweep[s].rows[u]) /\ unsent # {}
       IN  /\ sweep' = [sweep EXCEPT ![s].pc = IF fire THEN "sending" ELSE "loop",
                                     ![s].user = IF fire THEN u ELSE Null,
                                     ![s].fetched = IF fire THEN unsent ELSE {},
                                     ![s].rows[u] = NoRow,
                                     ![s].todo = @ \ {u}]
           /\ last' = [op |-> "sweep_user", job |-> s, user |-> u]
    /\ sent' = <<>>
    /\ UNCHANGED <<users, tasks, voice, now>>

\* the message listing the rows ids has been delivered
Delivered(tbl, ids) ==
    [i \in 1..Len(tbl) |->
        IF i \in ids THEN [tbl[i] EXCEPT !.digests = @ + 1] ELSE tbl[i]]

\* daily_digest_job, lines 490-493: the message is sent, the fetched rows marked
SweepSendOk(s) ==
    /\ sweep[s].pc = "sending"
    /\ tasks' = mark_tasks_sent(Delivered(tasks, sweep[s].fetched), sweep[s].fetched)
    /\ sent' = <<Notice(sweep[s].user, "digest", sweep[s].fetched)>>
    /\ sweep' = [sweep EXCEPT ![s].pc = "loop", ![s].user = Null, ![s].fetched = {}]
    /\ last' = [op |-> "sweep_send", job |-> s, user |-> sweep[s].user,
                fetched |-> sweep[s].fetched, ok |-> TRUE]
    /\ UNCHANGED <<users, voice, now>>

\* mutant: the rows are marked before the message is sent
SweepSendFail_marked(s) ==
    /\ sweep[s].pc = "sending"
    /\ tasks' = mark_tasks_sent(tasks, sweep[s].fetched)
    /\ sent' = <<>>
    /\ sweep' = [sweep EXCEPT ![s].pc = "loop", ![s].user = Null, ![s].fetched = {}]
    /\ last' = [op |-> "sweep_send", job |-> s, user |-> sweep[s].user,
                fetched |-> sweep[s].fetched, ok |-> FALSE]
    /\ UNCHANGED <<users, voice, now>>

\* daily_digest_job, lines 494-495: send_message raises
SweepSendFail(s) ==
    /\ sweep[s].pc = "sending"
    /\ tasks' = tasks
    /\ sent' = <<>>
    /\ sweep' = [sweep EXCEPT ![s].pc = "loop", ![s].user = Null, ![s].fetched = {}]
    /\ last' = [op |-> "sweep_send", job |-> s, user |-> sweep[s].user,
                fetched |-> sweep[s].fetched, ok |-> FALSE]
    /\ UNCHANGED <<users, voice, now>>

\* daily_digest_job returns (to cron_digest: line 97, "digest run complete")
SweepEnd(s) ==
    /\ sweep[s].pc = "loop"
    /\ sweep[s].todo = {}
    /\ sweep' = [sweep EXCEPT ![s] = IdleSweep]
    /\ last' = [op |-> "sweep_end", job |-> s, status |-> 200]
    /\ sent' = <<>>
    /\ UNCHANGED <<users, tasks, voice, now>>

\* server.py, line 25, and the Authorization headers tried, as their words
\* (no header is the empty one)
CRON_SECRET == "my-secret-key"
Headers == {<<>>, <<"Bearer", CRON_SECRET>>, <<"Bearer", "guess">>, <<CRON_SECRET>>}

\* mutant: only the scheme of the header is looked at
Unauthorized_scheme(h) == h = <<>> \/ h[1] # "Bearer"

\* cron_digest, line 62: auth_header != f"Bearer {CRON_SECRET}"
Unauthorized(h) == h # <<"Bearer", CRON_SECRET>>

\* GET /cron/digest (the bot token is configured): 401, or the sweep starts
\* (status 0: the answer comes when the sweep ends)
CronDigest(h) ==
    IF Unauthorized(h)
    THEN /\ last' = [op |-> "cron", header |-> h, status |-> 401]
         /\ sent' = <<>>
         /\ UNCHANGED <<users, tasks, voice, sweep, now>>
    ELSE /\ SweepStart("cron")
         /\ last' = [op |-> "cron", header |-> h, status |-> 0]

\* time passes to the next instant looked at (the first one of the next day
\* after the last one)
Tick ==
    /\ now' = IF \E t \in Instants : t > now
              THEN CHOOSE t \in Instants : t > now /\ \A x \in Instants : x > now => t <= x
              ELSE CHOOSE t \in Instants : \A x \in Instants : t <= x
    /\ last' = [op |-> "tick"]
    /\ sent' = <<>>
    /\ UNCHANGED <<users, tasks, voice, sweep>>

\* the repeating job with interval=60 (bot.py, line 562): the minute does not
\* end before a sweep that began in it has returned
TickAfterSweep ==
    /\ last.op = "sweep_end"
    /\ Tick

\* a voice note of account u is stored (handle_voice, line 410)
AddTask(u) ==
    /\ users[u].exists
    /\ Len(tasks) < MaxTasks
    /\ tasks' = add_task(tasks, u)
    /\ last' = [op |-> "add_task"]
    /\ sent' = <<>>
    /\ UNCHANGED <<users, voice, sweep, now>>

----------------------------------------------------------------------------
Init ==
    /\ users = [u \in Users |-> NoRow]
    /\ tasks = <<>>
    /\ voice = [r \in Reqs |-> IdleReq]
    /\ sweep = [s \in Sweepers |-> IdleSweep]
    /\ now = 600
    /\ last = [op |-> "init"]
    /\ sent = <<>>

\* /start: bot.start
Start(u) ==
    /\ users' = check_user_status(users, u)
    /\ last' = [op |-> "start"]
    /\ sent' = <<>>
    /\ UNCHANGED <<tasks, voice, sweep, now>>

\* the digest scheduler, with the commands that set what it reads
NextDigest ==
    \/ \E u \in Users : Start(u)
    \/ \E u \in Users : SetDigest(u, <<T_0905>>)
    \/ \E u \in Users : SetTimezone(u, <<"Asia/Singapore">>)
    \/ \E u \in Users : AddTask(u)
    \/ Tick
    \/ TimerFire
    \/ \E u \in Users : SweepUser("timer", u)
    \/ SweepSendOk("timer")
    \/ SweepSendFail("timer")
    \/ SweepEnd("timer")

SpecDigest == Init /\ [][NextDigest]_vars

\* the two callers of the digest job at work at the same time
NextOverlap ==
    \/ \E u \in Users : Start(u)
    \/ \E u \in Users : AddTask(u)
    \/ Tick
    \/ TimerFire
    \/ CronDigest(<<"Bearer", CRON_SECRET>>)
    \/ \E s \in Sweepers, u \in Users : SweepUser(s, u)
    \/ \E s \in Sweepers : SweepSendOk(s)
    \/ \E s \in Sweepers : SweepEnd(s)

SpecOverlap == Init /\ [][NextOverlap]_vars

\* the sweeps of GET /cron/digest at whatever cadence the caller has: time
\* goes on, the endpoint is called again and again, and a sweep that has
\* started runs to its end
NextCadence ==
    \/ \E u \in Users : Start(u)
    \/ \E u \in Users : AddTask(u)
    \/ Tick
    \/ CronDigest(<<"Bearer", CRON_SECRET>>)
    \/ \E u \in Users : SweepUser("cron", u)
    \/ SweepSendOk("cron")
    \/ SweepEnd("cron")

SpecCadence ==
    /\ Init /\ [][NextCadence]_vars
    /\ WF_vars(Tick)
    /\ WF_vars(CronDigest(<<"Bearer", CRON_SECRET>>))
    /\ \A u \in Users : WF_vars(SweepUser("cron", u))
    /\ WF_vars(SweepSendOk("cron"))
    /\ WF_vars(SweepEnd("cron"))

\* the two settings commands the scheduler reads from, with every argument
NextSettings ==
    \/ \E u \in Users : Start(u)
    \/ \E u \in Users, a \in TimeArgs : SetDigest(u, a)
    \/ \E u \in Users, a \in ZoneArgs : SetTimezone(u, a)

SpecSettings == Init /\ [][NextSettings]_vars

\* calls of check_user_status from handlers in separate processes, with the
\* commands and the billing event that change the row it returns
NextCreate ==
    \/ \E r \in Reqs, u \in Users : GetOrCreateFound(r, u)
    \/ \E r \in Reqs, u \in Users : GetOrCreateMiss(r, u)
    \/ \E r \in Reqs : GetOrCreateInsert(r)
    \/ \E u \in Users : SetDigest(u, <<T_0905>>)
    \/ \E u \in Users : SetTimezone(u, <<"Asia/Singapore">>)

SpecCreate == Init /\ [][NextCreate]_vars

\* billing events alone
NextBilling ==
    \/ \E u \in Users : Start(u)
    \/ \E e \in Events : Webhook(e)

SpecBilling == Init /\ [][NextBilling]_vars

\* consumption requests, with the billing events that change the plan
MeterEvents ==
    {e \in CheckoutEvents \cup DeletedEvents :
        e.customer = "cus_A" /\ e.client_reference_id \in {Null, "u1"}}

NextMeter ==
    \/ \E r \in Reqs, u \in Users, d \in Durations : VoiceStart(r, u, d)
    \/ \E r \in Reqs : VoiceError(r)
    \/ \E r \in Reqs : VoiceNoTasks(r)
    \/ \E r \in Reqs : VoiceCharge(r)
    \/ \E r \in Reqs : VoiceSave(r)
    \/ \E r \in Reqs : VoiceSaveFail(r)
    \/ \E e \in MeterEvents : Webhook(e)

SpecMeter == Init /\ [][NextMeter]_vars

\* the voice notes of one account with the billing events for it in between
NextCross ==
    \/ \E r \in Reqs, d \in {2, 3} : VoiceStart(r, "u1", d)
    \/ \E r \in Reqs : VoiceError(r)
    \/ \E r \in Reqs : VoiceCharge(r)
    \/ \E r \in Reqs : VoiceSave(r)
    \/ \E e \in MeterEvents : Webhook(e)

SpecCross == Init /\ [][NextCross]_vars

\* the polling process: one account, set up with any value /set_digest and
\* /set_timezone accept before its first item is stored, a sweep in every
\* minute and every send delivered
NextEveryMinute ==
    \/ Start("u1")
    \/ \E a \in {<<T_0905>>, <<T_905>>, <<T_95>>} : tasks = <<>> /\ SetDigest("u1", a)
    \/ \E a \in {<<"Asia/Singapore">>, <<"UTC">>} : tasks = <<>> /\ SetTimezone("u1", a)
    \/ AddTask("u1")
    \/ TickAfterSweep
    \/ TimerFire
    \/ SweepUser("timer", "u1")
    \/ SweepSendOk("timer")
    \/ SweepEnd("timer")

SpecEveryMinute ==
    /\ Init /\ [][NextEveryMinute]_vars
    /\ WF_vars(TimerFire)
    /\ WF_vars(SweepUser("timer", "u1"))
    /\ WF_vars(SweepSendOk("timer"))
    /\ WF_vars(SweepEnd("timer"))
    /\ SF_vars(TickAfterSweep)

\* the two HTTP endpoints with the requests they refuse
NextIntake ==
    \/ \E u \in Users : Start(u)
    \/ \E u \in Users : AddTask(u)
    \/ Tick
    \/ \E e \in MeterEvents : Webhook(e)
    \/ \E v \in Verdicts, e \in MeterEvents : WebhookRejected(v, e)
    \/ \E h \in Headers : CronDigest(h)
    \/ \E u \in Users : SweepUser("cron", u)
    \/ SweepSendOk("cron")
    \/ SweepEnd("cron")

SpecIntake == Init /\ [][NextIntake]_vars

Next ==
    \/ \E u \in Users : Start(u)
    \/ \E e \in Events : Webhook(e)
    \/ \E v \in Verdicts, e \in Events : WebhookRejected(v, e)
    \/ \E r \in Reqs, u \in Users, d \in Durations : VoiceStart(r, u, d)
    \/ \E r \in Reqs : VoiceError(r)
    \/ \E r \in Reqs : VoiceNoTasks(r)
    \/ \E r \in Reqs : VoiceCharge(r)
    \/ \E r \in Reqs : VoiceSave(r)
    \/ \E r \in Reqs : VoiceSaveFail(r)
    \/ \E r \in Reqs, u \in Users : GetOrCreateFound(r, u)
    \/ \E r \in Reqs, u \in Users : GetOrCreateMiss(r, u)
    \/ \E r \in Reqs : GetOrCreateInsert(r)
    \/ \E u \in Users, a \in TimeArgs : SetDigest(u, a)
    \/ \E u \in Users, a \in ZoneArgs : SetTimezone(u, a)
    \/ \E u \in Users : AddTask(u)
    \/ Tick
    \/ TickAfterSweep
    \/ TimerFire
    \/ \E h \in Headers : CronDigest(h)
    \/ \E s \in Sweepers, u \in Users : SweepUser(s, u)
    \/ \E s \in Sweepers : SweepSendOk(s)
    \/ \E s \in Sweepers : SweepSendFail(s)
    \/ \E s \in Sweepers : SweepEnd(s)

Spec == Init /\ [][Next]_vars

----------------------------------------------------------------------------
(* Usage meter *)

RECURSIVE SumDur(_)
SumDur(S) ==
    IF S = {} THEN 0
    ELSE LET r == CHOOSE x \in S : TRUE IN voice[r].dur + SumDur(S \ {r})

\* the requests of account u that were accepted and have written minutes_used
Committed(u) ==
    {r \in Reqs : voice[r].pc \in {"charged", "done", "save_failed"} /\ voice[r].user = u}

MaxOf(S) == CHOOSE m \in S : \A x \in S : x <= m

\* C1: for every account, the minutes of all accepted and committed requests add
\* up to at most the plan limit.  The limit is read generously: the largest plan
\* limit any of those requests was checked against, so that a later downgrade of
\* the plan is not counted against the claim.
C1_AcceptedWithinLimit ==
    \A u \in Users :
        Committed(u) # {} =>
            SumDur(Committed(u)) <= MaxOf({voice[r].limit : r \in Committed(u)})

\* C2: the stored minutes_used of an account never decreases.
C2_UsageNeverDecreases ==
    [][\A u \in Users :
          (users[u].exists /\ users'[u].exists) =>
              users'[u].minutes_used >= users[u].minutes_used]_vars

----------------------------------------------------------------------------
(* Entitlement state machine *)

WebhookOf(type) == last.op = "webhook" /\ last.event.type = type

\* the accounts whose billing_customer_ref is the customer c
AccountsOf(db, c) ==
    {u \in Users : db[u].exists /\ c # Null /\ db[u].stripe_customer_id = c}

NoCancelKeys(e) ==
    /\ e.previous_attributes.cancel_at_period_end = Absent
    /\ e.previous_attributes.cancel_at = Absent

\* C3: a subscription.updated event whose previous_attributes holds neither
\* cancel_at_period_end nor cancel_at sends no notification, whatever the
\* current cancel_at_period_end and cancel_at are.
C3_NoDiffNoNotice ==
    (WebhookOf(UPDATED) /\ NoCancelKeys(last.event)) => sent = <<>>

\* C3 witness: such an event for a customer that has an account and is
\* cancelling now was handled, and nothing was sent.
C3_Witness ==
    /\ WebhookOf(UPDATED) /\ NoCancelKeys(last.event)
    /\ last.event.cancel_at_period_end = "true"
    /\ AccountsOf(users, last.event.customer) # {}
    /\ sent = <<>>

FlagJustSet(e) ==
    /\ e.type = UPDATED
    /\ e.previous_attributes.cancel_at_period_end = "false"
    /\ e.previous_attributes.cancel_at = Absent
    /\ e.cancel_at_period_end = "true"

OneCancellationNotice ==
    Len(sent) = 1 /\ sent[1].kind = "cancellation_scheduled"

\* C4 as claimed: an update with previous_attributes = {cancel_at_period_end:
\* false} and cancel_at_period_end = true sends exactly one cancellation notice.
C4_ExactlyOneNotice ==
    (last.op = "webhook" /\ FlagJustSet(last.event)) => OneCancellationNotice

\* C4 amended: it sends exactly one cancellation notice, to an account of the
\* event's customer, when such an account exists, and none when there is none.
C4_OneNoticeIfAccountFound ==
    (last.op = "webhook" /\ FlagJustSet(last.event)) =>
        IF AccountsOf(users, last.event.customer) # {}
        THEN OneCancellationNotice
             /\ sent[1].to \in AccountsOf(users, last.event.customer)
        ELSE sent = <<>>

C4_Witness ==
    /\ last.op = "webhook" /\ FlagJustSet(last.event)
    /\ AccountsOf(users, last.event.customer) # {}
    /\ OneCancellationNotice

\* C5: after a checkout.session.completed event with a client_reference_id the
\* account of that id has plan pro and the event's customer id, and the "Pro
\* activated" notification was sent, whether or not the row existed before.
C5_CheckoutActivates ==
    (WebhookOf(CHECKOUT) /\ Truthy(last.event.client_reference_id)) =>
        LET u == last.event.client_reference_id
        IN  /\ users[u].exists
            /\ users[u].plan_tier = "pro"
            /\ users[u].stripe_customer_id = last.event.customer
            /\ sent = <<Notice(u, "pro_activated", Null)>>

\* C6: delivering a checkout.session.completed event a second time changes no
\* account: the store is as the first delivery left it, plan pro and the
\* customer id set.
C6_CheckoutIdempotent ==
    [][(last'.op = "webhook" /\ last'.event.type = CHECKOUT /\ last'.redelivery) =>
          /\ users' = users
          /\ LET u == last'.event.client_reference_id
             IN  (Truthy(u) /\ users'[u].exists) =>
                    /\ users'[u].plan_tier = "pro"
                    /\ users'[u].stripe_customer_id = last'.event.customer]_vars

C6_Witness ==
    /\ WebhookOf(CHECKOUT) /\ last.redelivery
    /\ Truthy(last.event.client_reference_id)
    /\ users[last.event.client_reference_id].exists
    /\ users[last.event.client_reference_id].plan_tier = "pro"
    /\ users[last.event.client_reference_id].stripe_customer_id = last.event.customer

\* The account u took customer c by a checkout event and was then downgraded by
\* the deletion of c's subscription: only a checkout of (u, c) stores c, it sets
\* the plan to pro with it, and only a deletion found by c sets it back to free.
CancelledCheckout(e) ==
    /\ e.type = CHECKOUT
    /\ Truthy(e.client_reference_id) /\ Truthy(e.customer)
    /\ users[e.client_reference_id].exists
    /\ users[e.client_reference_id].stripe_customer_id = e.customer
    /\ users[e.client_reference_id].plan_tier = "free"

\* C7: once a checkout and then the deletion of the subscription have been
\* applied, a redelivery of that checkout event changes no account.
C7_NoResurrection ==
    [][\A e \in CheckoutEvents :
          (CancelledCheckout(e) /\ last'.op = "webhook" /\ last'.event = e) =>
              users' = users]_vars

\* C8: a subscription.deleted event sets the plan of the account found by the
\* event's customer to free and sends it one "subscription ended" notification,
\* changing nothing else; with no such account nothing changes and nothing is sent.
C8_DeletedDowngrades ==
    [][(last'.op = "webhook" /\ last'.event.type = DELETED) =>
          LET found == AccountsOf(users, last'.event.customer)
          IN  IF found = {}
              THEN users' = users /\ sent' = <<>>
              ELSE \E u \in found :
                      /\ users' = [users EXCEPT ![u].plan_tier = "free"]
                      /\ sent' = <<Notice(u, "subscription_ended", Null)>>]_vars

C8_Witness ==
    /\ WebhookOf(DELETED)
    /\ Len(sent) = 1 /\ sent[1].kind = "subscription_ended"
    /\ users[sent[1].to].plan_tier = "free"
    /\ users[sent[1].to].stripe_customer_id = last.event.customer

\* C9: a subscription.updated event changes no field of any account.
C9_UpdatedChangesNothing ==
    [][(last'.op = "webhook" /\ last'.event.type = UPDATED) => users' = users]_vars

\* C9 witness: an update that notified an account, which is still pro.
C9_Witness ==
    /\ WebhookOf(UPDATED)
    /\ Len(sent) = 1
    /\ users[sent[1].to].plan_tier = "pro"

----------------------------------------------------------------------------
(* Digest scheduler *)

\* hours east of UTC
ZoneHours(tz) == IF tz = "Asia/Singapore" THEN 8 ELSE 0

TwoDigits(n) == <<Digits[(n \div 10) + 1], Digits[(n % 10) + 1]>>

\* the reference instant t (a minute of the UTC day) in the zone tz, as HH:MM
LocalHHMM(t, tz) ==
    TwoDigits(((t \div 60) + ZoneHours(tz)) % 24) \o <<":">> \o TwoDigits(t % 60)

HasUnsent(u) == \E i \in 1..Len(tasks) : tasks[i].user_id = u /\ ~tasks[i].is_digest_sent

\* C10: in a sweep with reference instant t the digest of an account is sent if
\* and only if t in the account's timezone, formatted HH:MM, equals the account's
\* digest_time (both as the sweep read them) and the account has an unsent item;
\* at 10:00 UTC an account in Asia/Singapore with digest_time 18:00 and an unsent
\* item fires and one in UTC with digest_time 18:00 does not.
C10_DigestIffLocalTimeMatches ==
    [][last'.op = "sweep_user" =>
          LET u == last'.user
              job == sweep[last'.job]
              row == job.rows[u]
              fires == sweep'[last'.job].pc = "sending" /\ sweep'[last'.job].user = u
          IN  /\ fires <=> (LocalHHMM(job.utc_now, row.timezone) = row.digest_time
                            /\ HasUnsent(u))
              /\ (job.utc_now = 600 /\ row.digest_time = <<"1", "8", ":", "0", "0">>
                  /\ HasUnsent(u)) =>
                     /\ row.timezone = "Asia/Singapore" => fires
                     /\ row.timezone = "UTC" => ~fires]_vars

\* C10 witness: the sweep of 10:00 UTC is sending the digest of an account in
\* Asia/Singapore whose digest_time is 18:00.
C10_Witness ==
    /\ last.op = "sweep_user"
    /\ sweep[last.job].pc = "sending" /\ sweep[last.job].user = last.user
    /\ sweep[last.job].utc_now = 600
    /\ users[last.user].timezone = "Asia/Singapore"
    /\ users[last.user].digest_time = <<"1", "8", ":", "0", "0">>
    /\ \E v \in Users \ {last.user} :
          /\ users[v].exists /\ users[v].timezone = "UTC"
          /\ users[v].digest_time = <<"1", "8", ":", "0", "0">>
          /\ HasUnsent(v) /\ v \notin sweep[last.job].todo

\* the account has items and each of them was listed in a delivered digest
AllDigested(u) ==
    /\ \E i \in 1..Len(tasks) : tasks[i].user_id = u
    /\ \A i \in 1..Len(tasks) : tasks[i].user_id = u => tasks[i].digests >= 1

\* C11: once a sweep has delivered the digest of an account and marked its
\* items, and no item was added for the account since, the turn of a later sweep
\* for the account (at the same reference minute or any other) sends nothing and
\* changes no item, and no digest lists an item that an earlier one listed.
C11_SecondSweepSendsNothing ==
    [][/\ (last'.op = "sweep_user" /\ AllDigested(last'.user)) =>
             /\ sweep'[last'.job].pc = "loop"
             /\ tasks' = tasks
             /\ sent' = <<>>
       /\ last'.op = "sweep_send" =>
             \A i \in last'.fetched : tasks[i].digests = 0]_vars

\* C11 witness: a sweep has just passed over an account whose local time
\* matches its digest_time in this sweep, all of whose items were in an
\* earlier digest.
C11_Witness ==
    /\ last.op = "sweep_user"
    /\ AllDigested(last.user)
    /\ sweep[last.job].pc = "loop"
    /\ TimeMatches(sweep[last.job].utc_now, users[last.user])
    /\ \A i \in 1..Len(tasks) : tasks[i].is_digest_sent

\* C12: whatever the interleaving of the sweeps of the two callers, no item is
\* listed in more than one delivered digest.
C12_NoItemInTwoDigests ==
    \A i \in 1..Len(tasks) : tasks[i].digests <= 1

\* C13: whatever the cadence of the sweeps, an account with an unsent item is
\* sent its digest.
C13_DigestAtAnyCadence ==
    \A u \in Users :
        HasUnsent(u) ~> (sent # <<>> /\ sent[1].kind = "digest" /\ sent[1].to = u)

\* C14: when the send of a digest fails, no item is changed and every item the
\* sweep had fetched is still unsent; and a turn of a sweep whose reference
\* instant, in the account's timezone, matches digest_time fetches every unsent
\* item of the account, those of a failed send included.
C14_FailedSendKeepsItems ==
    [][/\ (last'.op = "sweep_send" /\ ~last'.ok) =>
             /\ tasks' = tasks
             /\ sent' = <<>>
             /\ \A i \in last'.fetched : ~tasks'[i].is_digest_sent
       /\ last'.op = "sweep_user" =>
             LET u == last'.user
                 job == sweep[last'.job]
             IN  LocalHHMM(job.utc_now, job.rows[u].timezone) = job.rows[u].digest_time
                    => sweep'[last'.job].fetched =
                          {i \in 1..Len(tasks) :
                              tasks[i].user_id = u /\ ~tasks[i].is_digest_sent}]_vars

\* C14 witness: the send of a digest has just failed and the items it listed
\* are unsent.
C14_Witness ==
    /\ last.op = "sweep_send" /\ ~last.ok
    /\ last.fetched # {}
    /\ \A i \in last.fetched :
          tasks[i].user_id = last.user /\ ~tasks[i].is_digest_sent

----------------------------------------------------------------------------
(* Settings commands *)

\* C15: /set_digest 25:99, /set_timezone Not/AZone and either command without
\* an argument are not answered as saved and leave every stored digest_time and
\* timezone as they were.
C15_BadSettingRejected ==
    [][(\/ last'.op = "set_digest" /\ last'.args \in {<<>>, <<T_2599>>}
        \/ last'.op = "set_timezone" /\ last'.args \in {<<>>, <<"Not/AZone">>}) =>
          /\ last'.reply # "saved"
          /\ \A u \in Users :
                users'[u].exists =>
                   /\ users[u].exists
                   /\ users'[u].digest_time = users[u].digest_time
                   /\ users'[u].timezone = users[u].timezone]_vars

\* C15 witness: 25:99 has just been refused to an account that had set 09:05 and
\* Asia/Singapore before, and both are still stored.
C15_Witness ==
    /\ last.op = "set_digest" /\ last.args = <<T_2599>> /\ last.reply = "invalid"
    /\ users[last.user].exists
    /\ users[last.user].digest_time = T_0905
    /\ users[last.user].timezone = "Asia/Singapore"

\* two-digit hour 00-23, a colon, two-digit minute 00-59
IsHHMM(s) ==
    /\ Len(s) = 5
    /\ s[3] = ":"
    /\ \/ DigitIn(s[1], 0, 1) /\ IsDigit(s[2])
       \/ s[1] = "2" /\ DigitIn(s[2], 0, 3)
    /\ DigitIn(s[4], 0, 5) /\ IsDigit(s[5])

\* C16: every stored digest_time is a two-digit hour 00-23, a colon and a
\* two-digit minute 00-59, that is, a string that the HH:MM format of some
\* minute of the day equals.
C16_StoredTimeIsHHMM ==
    \A u \in Users :
        users[u].exists =>
           /\ IsHHMM(users[u].digest_time)
           /\ \E t \in 0..(MinutesPerDay - 1) : strftime(t) = users[u].digest_time

----------------------------------------------------------------------------
(* Requests and their answers *)

\* C17: no two accounts hold the same non-empty stripe_customer_id, so a lookup
\* by customer has at most one account to find.
C17_UniqueBillingRef ==
    \A u, v \in Users :
        (u # v /\ users[u].exists /\ users[v].exists
         /\ Truthy(users[u].stripe_customer_id))
           => users[u].stripe_customer_id # users[v].stripe_customer_id

\* C18: a webhook request whose body does not parse or whose signature does not
\* match is answered with a client error, a scheduler tick without the expected
\* bearer token with 401; neither changes an account or an item, starts or
\* moves a sweep, or sends anything.
C18_RejectedRequestHasNoEffect ==
    [][/\ last'.op = "webhook_rejected" =>
             /\ last'.status \in 400..499
             /\ users' = users /\ tasks' = tasks /\ sweep' = sweep /\ sent' = <<>>
       /\ (last'.op = "cron" /\ last'.header # <<"Bearer", CRON_SECRET>>) =>
             /\ last'.status = 401
             /\ users' = users /\ tasks' = tasks /\ sweep' = sweep /\ sent' = <<>>]_vars

\* C18 witness: a tick with a wrong token has just been answered 401 at a
\* minute at which an account with an unsent item is due, and no sweep runs.
C18_Witness ==
    /\ last.op = "cron" /\ last.header = <<"Bearer", "guess">> /\ last.status = 401
    /\ sweep["cron"].pc = "idle"
    /\ \E u \in Users :
          /\ users[u].exists
          /\ HasUnsent(u)
          /\ LocalHHMM(now, users[u].timezone) = users[u].digest_time

\* C19: a webhook request with a verified signature is answered 200 once it
\* has been dispatched, whatever its event type and also when the dispatch
\* changed and sent nothing.
C19_VerifiedAnswered200 ==
    last.op = "webhook" => last.status = 200

\* C19 witness: customer.subscription.deleted for a customer no account holds
\* has been answered 200 after doing nothing.
C19_Witness ==
    /\ WebhookOf(DELETED)
    /\ AccountsOf(users, last.event.customer) = {}
    /\ \E u \in Users : users[u].exists /\ users[u].plan_tier = "pro"
    /\ sent = <<>>
    /\ last.status = 200

\* C20: when the notification of a billing event fails, the change of the
\* account the event asks for is in the table all the same: the account of a
\* completed checkout is pro with the customer of the event, the account
\* notified of an ended subscription is free; and the request is answered 200.
C20_NotifyFailureKeepsUpdate ==
    [][(last'.op = "webhook" /\ ~last'.notify_ok) =>
          LET e == last'.event
              to == sent'[1].to
          IN  /\ Len(sent') = 1
              /\ last'.status = 200
              /\ (e.type = CHECKOUT /\ to \in Users /\ users[to].exists) =>
                    /\ to = e.client_reference_id
                    /\ users'[to].plan_tier = "pro"
                    /\ users'[to].stripe_customer_id = e.customer
              /\ e.type = DELETED =>
                    /\ users'[to].plan_tier = "free"
                    /\ users'[to].stripe_customer_id = e.customer
              /\ \A u \in Users \ {to} : users'[u] = users[u]]_vars

\* C20 witness: the notice of an ended subscription has just failed and the
\* account it was for is free.
C20_Witness ==
    /\ WebhookOf(DELETED)
    /\ ~last.notify_ok
    /\ Len(sent) = 1
    /\ sent[1].kind = "subscription_ended"
    /\ users[sent[1].to].plan_tier = "free"
    /\ users[sent[1].to].stripe_customer_id = last.event.customer

----------------------------------------------------------------------------
(* Contracts *)

\* C21: every call of check_user_status returns the account; afterwards the
\* row of the id exists; a call that finds no row creates it with plan free,
\* minutes_used 0, digest_time 18:00 and timezone UTC; a call that finds the row
\* changes no field of it.
C21_GetOrCreateIdempotent ==
    [][last'.op = "get_or_create" =>
          LET u == last'.user
          IN  /\ last'.returned
              /\ users'[u].exists
              /\ users[u].exists => users' = users
              /\ ~users[u].exists =>
                    /\ users'[u].plan_tier = "free"
                    /\ users'[u].minutes_used = 0
                    /\ users'[u].digest_time = <<"1", "8", ":", "0", "0">>
                    /\ users'[u].timezone = "UTC"
                    /\ \A v \in Users \ {u} : users'[v] = users[v]]_vars

\* C22: a request that finds usage c and plan limit L (5 for free, 300 for
\* pro) and proposes p minutes is turned away if and only if c + p > L.
C22_RejectedIffOverLimit ==
    [][last'.op = "voice_start" =>
          LET u == last'.user
              c == users'[u].minutes_used
              L == IF users'[u].plan_tier = "pro" THEN 300 ELSE 5
              p == last'.dur
          IN  (last'.verdict # "processing") <=> (c + p > L)]_vars

\* C23: once no request of an account is between its charge and its save, the
\* account has as many items, all owned by it and unsent when stored, as it has
\* requests that were charged; a request that was turned away or ended before
\* the charge has neither charged nor stored.
C23_ChargeAndItemTogether ==
    \A u \in Users :
        (\A r \in Reqs : ~(voice[r].pc = "charged" /\ voice[r].user = u)) =>
            Cardinality({r \in Reqs : voice[r].user = u
                                      /\ voice[r].pc \in {"done", "save_failed"}})
              = Cardinality({i \in 1..Len(tasks) : tasks[i].user_id = u})

\* an event of a handled type without one of the fields its branch reads
MissingField(e) ==
    \/ e.type = CHECKOUT /\ (e.client_reference_id = Null \/ e.customer = Null)
    \/ e.type \in {DELETED, UPDATED} /\ e.customer = Null
    \/ e.type = UPDATED /\ NoCancelKeys(e)

\* C24: a checkout without client_reference_id or without customer, a deleted
\* or updated subscription without customer and an updated subscription
\* without previous_attributes change no account, send nothing and are
\* answered like any other event.
C24_MissingFieldIsNoOp ==
    [][(last'.op = "webhook" /\ MissingField(last'.event)) =>
          /\ users' = users
          /\ sent' = <<>>
          /\ last'.status = 200]_vars

\* C25: an updated subscription whose previous_attributes lists a prior
\* cancel_at_period_end of true or a prior non-empty cancel_at was cancelling
\* before the event already, and no notice is sent for it.
C25_NoNoticeWhenAlreadyCancelling ==
    [][(last'.op = "webhook" /\ last'.event.type = UPDATED
        /\ \/ last'.event.previous_attributes.cancel_at_period_end = "true"
           \/ last'.event.previous_attributes.cancel_at \notin {Absent, Null, "false"})
          => sent' = <<>>]_vars

\* C26: every item marked sent was listed in a delivered digest; the step that
\* marks touches the items the sweep fetched for the account and no other, so
\* an item stored after the fetch and the items of other accounts stay as they
\* were.
C26_SentWasDelivered ==
    [][/\ \A i \in 1..Len(tasks') :
             tasks'[i].is_digest_sent => tasks'[i].digests >= 1
       /\ last'.op = "sweep_send" =>
             /\ \A i \in last'.fetched : tasks[i].user_id = last'.user
             /\ \A i \in 1..Len(tasks) :
                   i \notin last'.fetched => tasks'[i] = tasks[i]]_vars

\* C26 witness: a digest has just been delivered and its items marked, while an
\* item of the same account that was stored after the fetch is unsent.
C26_Witness ==
    /\ last.op = "sweep_send" /\ last.ok
    /\ \E i \in last.fetched : tasks[i].is_digest_sent /\ tasks[i].digests = 1
    /\ \E j \in 1..Len(tasks) :
          /\ j \notin last.fetched
          /\ tasks[j].user_id = last.user
          /\ ~tasks[j].is_digest_sent /\ tasks[j].digests = 0

\* C27: a billing event changes no minutes_used, digest_time or timezone and
\* creates no account; a step of a voice note changes no plan_tier and no
\* stripe_customer_id; and the charge of a voice note leaves in the row the
\* total the request computed next to the plan and the customer that the
\* billing events set, also those set while the request was under way.
C27_NoOverwriteAcrossFields ==
    [][/\ last'.op = "webhook" =>
             \A u \in Users :
                /\ users'[u].exists = users[u].exists
                /\ users[u].exists =>
                      /\ users'[u].minutes_used = users[u].minutes_used
                      /\ users'[u].digest_time = users[u].digest_time
                      /\ users'[u].timezone = users[u].timezone
       /\ last'.op \in {"voice", "voice_start"} =>
             \A u \in Users :
                users[u].exists =>
                   /\ users'[u].plan_tier = users[u].plan_tier
                   /\ users'[u].stripe_customer_id = users[u].stripe_customer_id
       /\ \A r \in Reqs :
             (voice[r].pc = "processing" /\ voice'[r].pc = "charged") =>
                users'[voice[r].user].minutes_used = voice[r].used + voice[r].dur]_vars

\* C27 witness: a voice note that read the free plan has just been charged
\* after a checkout made the account pro in between; the row holds the charge,
\* the plan and the customer.
C27_Witness ==
    /\ last.op = "voice"
    /\ \E r \in Reqs :
          /\ voice[r].pc = "charged"
          /\ voice[r].limit = FREE_TIER_MINUTES
          /\ voice[r].dur > 0
          /\ users[voice[r].user].minutes_used = voice[r].used + voice[r].dur
          /\ users[voice[r].user].plan_tier = "pro"
          /\ users[voice[r].user].stripe_customer_id = "cus_A"

\* C28: when /set_digest with an HH:MM value or /set_timezone has just answered
\* with its success message, the account of the caller exists and stores the
\* value supplied.
C28_SavedReplyMeansStored ==
    /\ (last.op = "set_digest" /\ last.reply = "saved" /\ IsHHMM(last.args[1])) =>
          /\ users[last.user].exists
          /\ users[last.user].digest_time = last.args[1]
    /\ (last.op = "set_timezone" /\ last.reply = "saved") =>
          /\ users[last.user].exists
          /\ users[last.user].timezone = last.args[1]

\* C29: with a sweep in every minute and every send delivered, every item
\* stored is marked sent in the end, whatever digest_time and timezone the
\* account has by default or was answered "saved" for.
C29_EveryItemSentInTheEnd ==
    \A i \in 1..MaxTasks :
        (Len(tasks) >= i) ~> (Len(tasks) >= i /\ tasks[i].is_digest_sent)

====
